---- MODULE Spec2Model ----
(***************************************************************************)
(* Model of analise_excel.py: the production / input-cost tables, the      *)
(* spreadsheet normalisation (normalizar_colunas) and the figures the      *)
(* Dashboard, "Cadastro Produção" and "Análise" pages derive from them.    *)
(*                                                                         *)
(* Conventions.  Money is counted in whole reais.  A spreadsheet cell is a *)
(* record [k, n, s]; a date stored in the database is the number of its    *)
(* day (the text 'YYYY-MM-DD' of that day), 0 standing for NULL / NaT.     *)
(* A float that a pandas / numpy division produces is a record             *)
(* [k, n, d]: k = "num" for the rational n/d (d > 0), "nan", "inf" or      *)
(* "-inf".                                                                 *)
(***************************************************************************)
EXTENDS Integers, Sequences, FiniteSets, TLC

VARIABLES
    producao,   \* rows of table producao, in rowid order
    insumos,    \* rows of table insumos, in rowid order
    seq_prod,   \* last id given by AUTOINCREMENT in producao
    seq_ins,    \* last id given by AUTOINCREMENT in insumos
    base,       \* number of producao rows already in dados_sitio.db at start-up
    config,     \* the loaded config.json
    tela,       \* what the last script run put on the page
    df_excel,   \* normalizar_colunas: the data frame handed in
    df_norm,    \* normalizar_colunas(df_excel)
    df_norm2,   \* normalizar_colunas(df_norm)
    fase,       \* how far the normalisation run has come
    chave_primaria, \* the tables still have id INTEGER PRIMARY KEY AUTOINCREMENT
    backup      \* backup_dados.json

vars == <<producao, insumos, seq_prod, seq_ins, base, config, tela,
          df_excel, df_norm, df_norm2, fase, chave_primaria, backup>>

(***************************************************************************)
(* Bounds of the model.                                                    *)
(***************************************************************************)
MaxProd == 2        \* production rows added in one session
MaxIns == 1         \* input-cost rows added in one session
MaxCaixas == 1      \* boxes (1st + 2nd grade) of one production record
MaxCols == 2        \* columns of a raw spreadsheet
MaxLinhas == 1      \* rows of a raw spreadsheet
MaxCustos == 2      \* input-cost rows of a table handed to "Análise"

(***************************************************************************)
(* Cells of a data frame.                                                  *)
(***************************************************************************)
Num(n) == [k |-> "num", n |-> n, s |-> ""]
Txt(s) == [k |-> "txt", n |-> 0, s |-> s]
\* the text 'YYYY-MM-DD' of day d
Iso(d) == [k |-> "iso", n |-> d, s |-> ""]
\* day d written any other way pandas can parse (an Excel date-time cell,
\* '15/01/2024 13:00', ...)
Outro(d) == [k |-> "outro", n |-> d, s |-> ""]
\* a text pandas cannot parse as a date
Lixo == [k |-> "lixo", n |-> 0, s |-> ""]
\* a blank cell: NaN / None
NaN == [k |-> "nan", n |-> 0, s |-> ""]

NaT == 0
Dias == {1, 2, 3}

\* pd.to_datetime(value, errors="coerce"): the day, or NaT
to_datetime(c) == IF c.k \in {"iso", "outro"} THEN c.n ELSE NaT

\* Series.dt.strftime('%Y-%m-%d'): NaT comes out as NaN
strftime(t) == IF t = NaT THEN NaN ELSE Iso(t)

(***************************************************************************)
(* normalizar_colunas                                                      *)
(***************************************************************************)
col_map_sem_area(c) ==
    CASE c = "Estufa" -> "estufa"
      [] c \in {"Produção", "Primeira", "Qtd", "Quantidade"} -> "caixas"
      [] c = "Segunda" -> "caixas_segunda"
      [] c = "Data" -> "data"
      [] OTHER -> c

\* col_map.get(c, c)
col_map(c) ==
    CASE c \in {"Estufa", "Área"} -> "estufa"
      [] c \in {"Produção", "Primeira", "Qtd", "Quantidade"} -> "caixas"
      [] c = "Segunda" -> "caixas_segunda"
      [] c = "Data" -> "data"
      [] OTHER -> c

\* a data frame is [erro, cols, linhas]: the column names and, per row, the
\* cells in column order; erro marks the call that raised instead
Frame(cols, linhas) == [erro |-> FALSE, cols |-> cols, linhas |-> linhas]
Falha == [erro |-> TRUE, cols |-> <<>>, linhas |-> <<>>]

Indices(cols, c) == {i \in 1..Len(cols) : cols[i] = c}

\* "col in df.columns"
TemColuna(cols, c) == Indices(cols, c) # {}

\* df.rename(columns={c: col_map.get(c, c) for c in df.columns})
Renomear(df) ==
    [df EXCEPT !.cols = [i \in 1..Len(df.cols) |-> col_map(df.cols[i])]]

\* df["data"] = pd.to_datetime(df["data"], errors="coerce").dt.strftime(..)
\* With two columns named "data", df["data"] is a DataFrame and
\* pd.to_datetime raises.
ConverterData(df) ==
    IF ~TemColuna(df.cols, "data") THEN df
    ELSE IF Cardinality(Indices(df.cols, "data")) > 1
    THEN Falha
    ELSE LET j == CHOOSE i \in Indices(df.cols, "data") : TRUE
         IN [df EXCEPT !.linhas =
                [r \in 1..Len(df.linhas) |->
                    [df.linhas[r] EXCEPT ![j] = strftime(to_datetime(@))]]]

NovaColuna_vazia(df, col, valor) ==
    [df EXCEPT !.cols = Append(@, col),
               !.linhas = [r \in 1..Len(df.linhas) |->
                              Append(df.linhas[r], NaN)]]

\* df[col] = valor, for a column the frame does not have yet
NovaColuna(df, col, valor) ==
    [df EXCEPT !.cols = Append(@, col),
               !.linhas = [r \in 1..Len(df.linhas) |->
                              Append(df.linhas[r], valor)]]

\* "if col not in df.columns"
FaltaColuna_sempre(cols, col) == TRUE
FaltaColuna(cols, col) == ~TemColuna(cols, col)

\* the columns created when missing, in the order of the code
Padroes == << <<"caixas", Num(0)>>, <<"caixas_segunda", Num(0)>>,
              <<"temperatura", Num(0)>>, <<"umidade", Num(0)>>,
              <<"chuva", Num(0)>>, <<"estufa", Txt("")>>,
              <<"cultura", Txt("")>> >>

RECURSIVE Preencher(_, _)
Preencher(df, i) ==
    IF i > Len(Padroes) THEN df
    ELSE Preencher(IF FaltaColuna(df.cols, Padroes[i][1])
                   THEN NovaColuna(df, Padroes[i][1], Padroes[i][2])
                   ELSE df, i + 1)

normalizar_colunas(df) ==
    LET d == ConverterData(Renomear(df))
    IN IF d.erro THEN d ELSE Preencher(d, 1)

(***************************************************************************)
(* Floats.  The sums are numpy scalars and the columns pandas Series, so a *)
(* division by zero raises nothing: it gives nan, inf or -inf.             *)
(***************************************************************************)
Abs(x) == IF x < 0 THEN -x ELSE x

RECURSIVE MDC(_, _)
MDC(a, b) == IF b = 0 THEN a ELSE MDC(b, a % b)

Rac(n, d) ==
    LET g == MDC(Abs(n), d)
    IN [k |-> "num", n |-> n \div g, d |-> d \div g]
Inteiro(n) == [k |-> "num", n |-> n, d |-> 1]
nan == [k |-> "nan", n |-> 0, d |-> 1]
inf == [k |-> "inf", n |-> 0, d |-> 1]
menos_inf == [k |-> "-inf", n |-> 0, d |-> 1]

\* a / b * 100 in floating point, a and b whole numbers
Pct(a, b) ==
    IF b # 0 THEN (IF b > 0 THEN Rac(100 * a, b) ELSE Rac(-(100 * a), -b))
    ELSE IF a = 0 THEN nan
    ELSE IF a > 0 THEN inf ELSE menos_inf

\* Series.round(1): to the nearest tenth, a tie to the even one
round1(x) ==
    IF x.k # "num" THEN x
    ELSE LET t == 10 * x.n
             q == t \div x.d
             r == t % x.d
             up == \/ 2 * r > x.d
                   \/ (2 * r = x.d /\ q % 2 = 1)
         IN Rac(IF up THEN q + 1 ELSE q, 10)

(***************************************************************************)
(* The tables.  A producao row is [id, data, estufa, cultura, caixas,      *)
(* caixas_segunda]; an insumos row is [id, data, estufa, cultura, tipo,    *)
(* quantidade, custo_unitario, custo_total].  Nulo is SQL NULL in a text   *)
(* column (None in the loaded frame).                                      *)
(***************************************************************************)
Nulo == "None"

ColunasProducao == {"id", "data", "estufa", "cultura", "caixas",
                    "caixas_segunda", "temperatura", "umidade", "chuva",
                    "observacao"}

ColunasInsumos == {"id", "data", "estufa", "cultura", "tipo", "quantidade",
                   "unidade", "custo_unitario", "custo_total", "fornecedor",
                   "lote", "observacoes"}

\* the frame carregar_tabela returns, as to its columns and the type of
\* column data (TEXT in the table: object in the frame)
Carregado(colunas) == [colunas |-> colunas, dtype_data |-> "object"]

\* the texts a stored key can be, in ascending order
Alfabeto == <<"", " ", "A", "B", "E1", "E2", "Kale", "Muda", "Semente">>

EhNulo(campo, v) == IF campo = "data" THEN v = NaT ELSE v = Nulo

Rank(campo, v) ==
    IF campo = "data" THEN v
    ELSE CHOOSE i \in 1..Len(Alfabeto) : Alfabeto[i] = v

\* Series.sum(): 0 for an empty column
RECURSIVE Soma(_, _)
Soma(df, campo) ==
    IF df = <<>> THEN 0 ELSE Head(df)[campo] + Soma(Tail(df), campo)

\* the keys of a groupby: NaN / None / NaT keys are dropped (dropna=True)
Chaves(df, campo) ==
    {df[i][campo] : i \in {j \in 1..Len(df) : ~EhNulo(campo, df[j][campo])}}

RECURSIVE OrdenarChaves_desc(_, _)
OrdenarChaves_desc(S, campo) ==
    IF S = {} THEN <<>>
    ELSE LET m == CHOOSE x \in S :
                      \A y \in S : Rank(campo, y) <= Rank(campo, x)
         IN <<m>> \o OrdenarChaves_desc(S \ {m}, campo)

\* groupby sorts the group keys (sort=True)
RECURSIVE OrdenarChaves(_, _)
OrdenarChaves(S, campo) ==
    IF S = {} THEN <<>>
    ELSE LET m == CHOOSE x \in S :
                      \A y \in S : Rank(campo, x) <= Rank(campo, y)
         IN <<m>> \o OrdenarChaves(S \ {m}, campo)

Grupo_todas(df, campo, chave) == df

\* the rows of the group of that key
Grupo(df, campo, chave) ==
    LET Do(r) == ~EhNulo(campo, r[campo]) /\ r[campo] = chave
    IN SelectSeq(df, Do)

\* df.groupby(campo)[["caixas", "caixas_segunda"]].sum().reset_index()
AgruparProducao(df, campo) ==
    LET ks == OrdenarChaves(Chaves(df, campo), campo)
    IN [i \in 1..Len(ks) |->
           [chave |-> ks[i],
            caixas |-> Soma(Grupo(df, campo, ks[i]), "caixas"),
            caixas_segunda |->
                Soma(Grupo(df, campo, ks[i]), "caixas_segunda")]]

\* df.groupby(campo)["custo_total"].sum().reset_index()
AgruparCusto(df, campo) ==
    LET ks == OrdenarChaves(Chaves(df, campo), campo)
    IN [i \in 1..Len(ks) |->
           [chave |-> ks[i],
            custo_total |-> Soma(Grupo(df, campo, ks[i]), "custo_total")]]

(***************************************************************************)
(* Page "Dashboard".                                                       *)
(***************************************************************************)
\* np.where(caixas + caixas_segunda > 0, caixas_segunda / (..) * 100, 0)
pct_segunda_linha(r) ==
    IF r.caixas + r.caixas_segunda > 0
    THEN Pct(r.caixas_segunda, r.caixas + r.caixas_segunda)
    ELSE Inteiro(0)

\* receita_estimada = total_caixas * config.get("preco_medio_caixa", 30)
PrecoPadrao == 30

config_get_sem_padrao(cfg, chave, padrao) ==
    IF chave \in DOMAIN cfg THEN cfg[chave] ELSE 0

\* dict.get(chave, padrao)
config_get(cfg, chave, padrao) ==
    IF chave \in DOMAIN cfg THEN cfg[chave] ELSE padrao

\* config.get("preco_medio_caixa", 30): the one price there is
preco_medio_caixa(cfg) == config_get(cfg, "preco_medio_caixa", PrecoPadrao)

receita_so_primeira(caixas, segunda, cfg) == caixas * preco_medio_caixa(cfg)
receita_com_segunda(caixas, segunda, cfg) ==
    (caixas + segunda) * preco_medio_caixa(cfg)
receita_estimada(caixas, segunda, cfg) ==
    receita_so_primeira(caixas, segunda, cfg)

Dashboard(df_prod, df_ins, cfg) ==
    LET total_caixas == IF df_prod # <<>> THEN Soma(df_prod, "caixas") ELSE 0
        total_segunda ==
            IF df_prod # <<>> THEN Soma(df_prod, "caixas_segunda") ELSE 0
        total_insumos ==
            IF df_ins # <<>> THEN Soma(df_ins, "custo_total") ELSE 0
        receita == receita_estimada(total_caixas, total_segunda, cfg)
    IN [pagina |-> "Dashboard",
        df_prod |-> df_prod,
        df_ins |-> df_ins,
        total_caixas |-> total_caixas,
        total_segunda |-> total_segunda,
        total_insumos |-> total_insumos,
        receita_estimada |-> receita,
        lucro_estimado |-> IF receita # 0 THEN receita - total_insumos ELSE 0,
        pct_segunda |->
            [i \in 1..Len(df_prod) |-> pct_segunda_linha(df_prod[i])],
        prod_estufa |-> AgruparProducao(df_prod, "estufa"),
        prod_temporal |-> AgruparProducao(df_prod, "data"),
        \* the frame df_prod at the end of the run: df_prod["pct_segunda"] =
        \* .. and df_prod["data"] = pd.to_datetime(..) assign into it
        quadro_prod |->
            IF df_prod # <<>>
            THEN [colunas |-> ColunasProducao \cup {"pct_segunda"},
                  dtype_data |-> "datetime64"]
            ELSE Carregado(ColunasProducao)]

(***************************************************************************)
(* Page "Cadastro Produção": the listing of recent records.                *)
(***************************************************************************)
HeadLimit == 15

ComData(df, d) == LET Do(r) == r.data = d IN SelectSeq(df, Do)

\* df.sort_values("data", ascending=False): the later day first, the rows
\* of one day in table order, the rows without a date last
RECURSIVE sort_values_desc(_, _)
sort_values_desc(df, dias) ==
    IF dias = {} THEN ComData(df, NaT)
    ELSE LET m == CHOOSE x \in dias : \A y \in dias : y <= x
         IN ComData(df, m) \o sort_values_desc(df, dias \ {m})

\* DataFrame.head(n)
head(df, n) == SubSeq(df, 1, IF Len(df) < n THEN Len(df) ELSE n)

CadastroProducao(df) ==
    [pagina |-> "Cadastro Produção",
     df |-> df,
     df_display |->
         IF df # <<>>
         THEN head(sort_values_desc(df, Chaves(df, "data")), HeadLimit)
         ELSE <<>>,
     ids |-> [i \in 1..Len(df) |-> df[i].id]]

(***************************************************************************)
(* Page "Análise".                                                         *)
(***************************************************************************)
Unicos(df, campo) == {df[i][campo] : i \in 1..Len(df)}

Max(S) == CHOOSE x \in S : \A y \in S : y <= x
Menor(S) == CHOOSE x \in S : \A y \in S : x <= y

\* the rows with start_date <= data <= end_date; a comparison with NaT is
\* False
filtrar_periodo_com_nat(df, start_date, end_date) ==
    LET Do(r) == r.data = NaT \/ (start_date <= r.data /\ r.data <= end_date)
    IN SelectSeq(df, Do)
filtrar_periodo(df, start_date, end_date) ==
    LET Do(r) == r.data # NaT /\ start_date <= r.data /\ r.data <= end_date
    IN SelectSeq(df, Do)

filtrar_isin_sempre(df, campo, selecionadas) ==
    LET Do(r) == r[campo] \in selecionadas IN SelectSeq(df, Do)

\* "if selecionadas: df = df[df[campo].isin(selecionadas)]"
filtrar_isin(df, campo, selecionadas) ==
    IF selecionadas = {} THEN df
    ELSE LET Do(r) == r[campo] \in selecionadas IN SelectSeq(df, Do)

\* prod_cultura: groupby cultura, Total and '% 2ª'
prod_cultura(df) ==
    LET g == AgruparProducao(df, "cultura")
    IN [i \in 1..Len(g) |->
           [chave |-> g[i].chave,
            caixas |-> g[i].caixas,
            caixas_segunda |-> g[i].caixas_segunda,
            Total |-> g[i].caixas + g[i].caixas_segunda,
            pct2 |-> round1(Pct(g[i].caixas_segunda,
                                g[i].caixas + g[i].caixas_segunda))]]

\* custo_total of the group of that key, NaN filled with 0 after the left
\* merge
CustoDe(custos, chave) ==
    LET S == {i \in 1..Len(custos) : custos[i].chave = chave}
    IN IF S = {} THEN 0 ELSE custos[CHOOSE i \in S : TRUE].custo_total

rentabilidade(df_prod, df_ins, cfg) ==
    LET g == AgruparProducao(df_prod, "cultura")
        custos == AgruparCusto(df_ins, "cultura")
    IN [i \in 1..Len(g) |->
           LET receita == receita_estimada(g[i].caixas, g[i].caixas_segunda,
                                           cfg)
               custo == CustoDe(custos, g[i].chave)
           IN [chave |-> g[i].chave,
               caixas |-> g[i].caixas,
               Receita |-> receita,
               custo_total |-> custo,
               Lucro |-> receita - custo,
               Margem |-> round1(Pct(receita - custo, receita)),
               ROI |-> round1(Pct(receita - custo, custo))]]

\* the outcomes of g.sort_values("custo_total", ascending=False): the rows
\* of g in descending order of cost.  The default sort (quicksort) is not
\* stable, so rows of equal cost come in either order.
sort_values_custo(g) ==
    {[i \in 1..Len(g) |-> g[p[i]]] :
        p \in {q \in [1..Len(g) -> 1..Len(g)] :
                  /\ \A i, j \in 1..Len(g) : q[i] = q[j] => i = j
                  /\ \A i, j \in 1..Len(g) :
                         i < j => g[q[i]].custo_total >= g[q[j]].custo_total}}

\* plot_bar_sum: the table it plots, or the axis switched off
plot_bar_sum(df, x) ==
    IF df = <<>> THEN [eixo |-> FALSE, g |-> <<>>]
    ELSE LET g == AgruparProducao(df, x)
         IN IF g = <<>> THEN [eixo |-> FALSE, g |-> <<>>]
            ELSE [eixo |-> TRUE, g |-> g]

pct_segunda_sem_guarda(pf, total_caixas, total_segunda) ==
    Pct(total_segunda, total_caixas + total_segunda)

\* the metric "% 2ª Qualidade": "0%" for an empty filtered set, and 0 for a
\* total of 0
pct_segunda_metrica(pf, total_caixas, total_segunda) ==
    IF pf # <<>> /\ total_caixas + total_segunda > 0
    THEN Pct(total_segunda, total_caixas + total_segunda)
    ELSE Inteiro(0)

Analise(df_prod, df_ins, cfg, f) ==
    LET pf == IF df_prod # <<>>
              THEN filtrar_isin(
                       filtrar_isin(
                           filtrar_periodo(df_prod, f.start_date, f.end_date),
                           "estufa", f.estufas),
                       "cultura", f.culturas)
              ELSE <<>>
        cf == IF df_ins # <<>>
              THEN filtrar_isin(
                       filtrar_periodo(df_ins, f.start_date, f.end_date),
                       "tipo", f.tipos)
              ELSE <<>>
        total_caixas == Soma(pf, "caixas")
        total_segunda == Soma(pf, "caixas_segunda")
        custo_total == Soma(cf, "custo_total")
        receita == receita_estimada(total_caixas, total_segunda, cfg)
        ambos == pf # <<>> /\ cf # <<>>
    IN [pagina |-> "Análise",
        erro |-> FALSE,
        filtro |-> f,
        df_prod |-> df_prod,
        df_ins |-> df_ins,
        df_prod_filtrado |-> pf,
        df_ins_filtrado |-> cf,
        \* "Métricas de Performance": what the four metrics show
        total_caixas |-> total_caixas,
        total_segunda |-> total_segunda,
        pct_segunda |-> pct_segunda_metrica(pf, total_caixas, total_segunda),
        custo_total |-> custo_total,
        tem_balanco |-> ambos,
        receita_estimada |-> IF ambos THEN receita ELSE 0,
        lucro |-> IF ambos THEN receita - custo_total ELSE 0,
        \* "Análise de Produção"
        prod_diaria |-> IF pf # <<>> THEN AgruparProducao(pf, "data") ELSE <<>>,
        prod_cultura |-> IF pf # <<>> THEN prod_cultura(pf) ELSE <<>>,
        prod_estufa |->
            IF pf # <<>> THEN AgruparProducao(pf, "estufa") ELSE <<>>,
        \* the frames at the end of the run: df_prod["data"] and
        \* df_ins["data"] are assigned pd.to_datetime(..), and the filtered
        \* production gets the column "semana"
        quadro_prod |->
            IF df_prod # <<>>
            THEN [colunas |-> ColunasProducao, dtype_data |-> "datetime64"]
            ELSE Carregado(ColunasProducao),
        quadro_ins |->
            IF df_ins # <<>>
            THEN [colunas |-> ColunasInsumos, dtype_data |-> "datetime64"]
            ELSE Carregado(ColunasInsumos),
        colunas_filtrado |->
            IF pf # <<>> THEN ColunasProducao \cup {"semana"}
            ELSE IF df_prod # <<>> THEN ColunasProducao ELSE {},
        \* "Análise de Custos"
        custos_tipo |->
            IF cf # <<>> THEN AgruparCusto(cf, "tipo") ELSE <<>>,
        \* "Análise de Rentabilidade"
        rentabilidade |->
            IF ambos THEN rentabilidade(pf, cf, cfg) ELSE <<>>,
        \* "Insights e Recomendações"
        tem_producao |-> pf # <<>>,
        pct_segunda_geral |->
            IF pf # <<>>
            THEN Pct(total_segunda, total_caixas + total_segunda)
            ELSE Inteiro(0),
        receita_total |-> IF ambos THEN receita ELSE 0,
        lucro_total |-> IF ambos THEN receita - custo_total ELSE 0,
        margem_total |->
            IF ambos /\ receita > 0
            THEN Pct(receita - custo_total, receita)
            ELSE Inteiro(0)]

\* the period the date_input offers: min_date .. max_date of the production
\* dates; with no production, the last 365 days, which hold every day of
\* the model
Periodo(df_prod) ==
    IF df_prod = <<>> THEN Dias
    ELSE Menor(Chaves(df_prod, "data"))..Max(Chaves(df_prod, "data"))

\* the filters of the sidebar: any period, with the selections left at
\* their default (every estufa, cultura and tipo there is)
Filtros(df_prod, df_ins) ==
    LET P == Periodo(df_prod)
        E == Unicos(df_prod, "estufa")
        C == Unicos(df_prod, "cultura")
        T == Unicos(df_ins, "tipo")
        F(a, b, e, c, t) == [start_date |-> a, end_date |-> b, estufas |-> e,
                             culturas |-> c, tipos |-> t]
    IN {F(p[1], p[2], E, C, T) : p \in {q \in P \X P : q[1] <= q[2]}}

\* the filters of the sidebar with the selections changed too: any period
\* and any subset of the estufas, culturas and tipos on offer (none chosen
\* is the empty list)
FiltrosEscolhidos(df_prod, df_ins) ==
    LET P == Periodo(df_prod)
    IN {[start_date |-> p[1], end_date |-> p[2], estufas |-> e,
         culturas |-> c, tipos |-> t] :
           p \in {q \in P \X P : q[1] <= q[2]},
           e \in SUBSET Unicos(df_prod, "estufa"),
           c \in SUBSET Unicos(df_prod, "cultura"),
           t \in SUBSET Unicos(df_ins, "tipo")}

(***************************************************************************)
(* Raw spreadsheets handed to normalizar_colunas.  pd.read_excel makes the *)
(* header names distinct, so a sheet never has two columns of one name.    *)
(***************************************************************************)
NomesColuna == <<"Data", "data", "Estufa", "Área", "estufa", "cultura",
                 "Produção", "Primeira", "Qtd", "Quantidade", "caixas",
                 "Segunda", "caixas_segunda", "temperatura", "umidade",
                 "chuva", "observacao">>

\* the values a cell of a column of that name takes in the model
Dominio(c) ==
    CASE col_map(c) = "data" -> {Iso(1), Outro(2), Lixo, NaN}
      [] col_map(c) \in {"caixas", "caixas_segunda"} -> {Num(0), Num(1)}
      [] col_map(c) \in {"estufa", "cultura"} -> {Txt("A"), NaN}
      [] col_map(c) \in {"temperatura", "umidade", "chuva"} -> {Num(25)}
      [] OTHER -> {Txt("x")}

Celulas == UNION {Dominio(NomesColuna[i]) : i \in 1..Len(NomesColuna)}

Min(S) == CHOOSE x \in S : \A y \in S : x <= y

RECURSIVE EmOrdem(_)
EmOrdem(S) ==
    IF S = {} THEN <<>> ELSE <<NomesColuna[Min(S)]>> \o EmOrdem(S \ {Min(S)})

Cabecalhos ==
    {EmOrdem(S) : S \in {T \in SUBSET (1..Len(NomesColuna)) :
                             Cardinality(T) <= MaxCols}}

LinhasDe(cols) ==
    {l \in [1..Len(cols) -> Celulas] :
        \A i \in 1..Len(cols) : l[i] \in Dominio(cols[i])}

\* df is a sheet of at most MaxCols columns and MaxLinhas rows
Planilha(df) ==
    \E cols \in Cabecalhos : \E n \in 0..MaxLinhas :
        \E ls \in [1..n -> LinhasDe(cols)] : df = Frame(cols, ls)

FrameVazio == Frame(<<>>, <<>>)

\* the sidebar menu, before a page is run
Neutra == [pagina |-> "nenhuma"]

\* no backup_dados.json yet
SemBackup == [feito |-> FALSE, producao |-> <<>>, insumos |-> <<>>]

\* a NULL id (the ids AUTOINCREMENT gives start at 1)
IdNulo == 0

\* the id SQLite gives a row inserted without one: the next of the
\* sequence while id is the INTEGER PRIMARY KEY AUTOINCREMENT of the
\* table, NULL once the table was recreated by to_sql(if_exists="replace")
ProximoId(seq) == IF chave_primaria THEN seq + 1 ELSE IdNulo

(***************************************************************************)
(* The normalisation run: a sheet is normalised, and the result is         *)
(* normalised once more.                                                   *)
(***************************************************************************)
InitBanco ==
    /\ producao = <<>>
    /\ insumos = <<>>
    /\ seq_prod = 0
    /\ seq_ins = 0
    /\ base = 0
    /\ config = [preco_medio_caixa |-> 30]
    /\ tela = Neutra

InitNorm ==
    /\ InitBanco
    /\ Planilha(df_excel)
    /\ df_norm = FrameVazio
    /\ df_norm2 = FrameVazio
    /\ fase = "lida"
    /\ chave_primaria = TRUE
    /\ backup = SemBackup

Normalizar ==
    /\ fase = "lida"
    /\ df_norm' = normalizar_colunas(df_excel)
    /\ fase' = "normalizada"
    /\ UNCHANGED <<producao, insumos, seq_prod, seq_ins, base, config, tela,
                   df_excel, df_norm2, chave_primaria, backup>>

Renormalizar ==
    /\ fase = "normalizada"
    /\ ~df_norm.erro
    /\ df_norm2' = normalizar_colunas(df_norm)
    /\ fase' = "renormalizada"
    /\ UNCHANGED <<producao, insumos, seq_prod, seq_ins, base, config, tela,
                   df_excel, df_norm, chave_primaria, backup>>

NextNorm == Normalizar \/ Renormalizar

SpecNorm == InitNorm /\ [][NextNorm]_vars

(***************************************************************************)
(* What the forms and the uploads of a session carry.                      *)
(***************************************************************************)
\* str.strip()
strip(t) == CASE t = " B" -> "B" [] OTHER -> t

\* form "form_cadastro_producao": date, estufa and cultura as typed
EntradasProducao == {<<1, "E1", "A">>, <<2, "E2", " B">>}

\* caixas (1ª) and caixas (2ª) of one record
ParesCaixas == {p \in (0..MaxCaixas) \X (0..MaxCaixas) :
                   p[1] + p[2] <= MaxCaixas}

\* the sheets uploaded to "Importar Excel": one row each
PlanilhasProducao ==
    {Frame(<<"Data", "Área", "cultura", "Produção", "Segunda">>, <<l>>) :
        l \in {<<Lixo, Txt("E1"), Txt("A"), Num(1), Num(0)>>,
               <<Outro(1), Txt("E2"), NaN, Num(0), Num(1)>>}}
    \cup {Frame(<<"cultura">>, << <<Txt("B")>> >>),
          Frame(<<"Data", "data">>, << <<Iso(1), Iso(1)>> >>),
          Frame(<<"cultura", "Lote">>, << <<Txt("B"), Txt("x")>> >>)}

\* form "form_insumos": date, estufa, cultura, tipo, quantidade, custo
\* unitário, custo total as typed
EntradasInsumos == {<<1, "E1", "A", "Semente", 2, 20, 0>>,
                    <<2, "E2", "B", "Muda", 1, 0, 0>>,
                    <<1, "E1", "A", "Semente", 2, 20, 50>>}

\* str.lower() of a column name
lower(c) ==
    CASE c = "Data" -> "data"
      [] c = "Estufa" -> "estufa"
      [] c = "Cultura" -> "cultura"
      [] c = "Tipo" -> "tipo"
      [] c = "Quantidade" -> "quantidade"
      [] c = "Custo_Unitario" -> "custo_unitario"
      [] c = "Custo_Total" -> "custo_total"
      [] c = "Preço" -> "preço"
      [] OTHER -> c

\* the sheets uploaded to "Importar Excel (Insumos)": one row each, with a
\* total of 0, without a column for the total, with the total filled in,
\* and with a column the table does not have
PlanilhasInsumos ==
    {Frame(<<"Data", "Estufa", "Cultura", "Tipo", "Quantidade",
             "Custo_Unitario", "Custo_Total">>,
           << <<Iso(1), Txt("E1"), Txt("A"), Txt("Semente"), Num(2),
                Num(20), Num(t)>> >>) : t \in {0, 40}}
    \cup {Frame(<<"data", "tipo", "quantidade", "custo_unitario">>,
                << <<Iso(2), Txt("Muda"), Num(2), Num(20)>> >>),
          Frame(<<"data", "tipo", "Preço">>,
                << <<Iso(2), Txt("Muda"), Num(20)>> >>)}

Precos == {30, 45}

(***************************************************************************)
(* The script runs.                                                        *)
(***************************************************************************)
Init ==
    /\ InitBanco
    /\ df_excel = FrameVazio
    /\ df_norm = FrameVazio
    /\ df_norm2 = FrameVazio
    /\ fase = "parada"
    /\ chave_primaria = TRUE
    /\ backup = SemBackup

\* "Salvar Registro": inserir_tabela("producao", novo)
SalvarRegistro ==
    \E e \in EntradasProducao, p \in ParesCaixas :
        /\ tela = Neutra
        /\ Len(producao) < base + MaxProd
        /\ seq_prod < base + MaxProd
        /\ producao' = Append(producao,
               [id |-> ProximoId(seq_prod), data |-> e[1], estufa |-> strip(e[2]),
                cultura |-> strip(e[3]), caixas |-> p[1],
                caixas_segunda |-> p[2]])
        /\ seq_prod' = IF chave_primaria THEN seq_prod + 1 ELSE seq_prod
        /\ tela' = Neutra
        /\ UNCHANGED <<insumos, seq_ins, base, config, df_excel, df_norm,
                       df_norm2, fase, chave_primaria, backup>>

\* DataFrame.to_sql(.., if_exists="append") raises on a column the table
\* does not have and on two columns of one name
to_sql_aceita(df) ==
    /\ \A i \in 1..Len(df.cols) : df.cols[i] \in ColunasProducao
    /\ \A i, j \in 1..Len(df.cols) : df.cols[i] = df.cols[j] => i = j

\* the cell of column col in a row of the frame; NaN when the frame has no
\* such column (the table column is left NULL)
Celula(df, l, col) ==
    IF TemColuna(df.cols, col)
    THEN l[CHOOSE i \in Indices(df.cols, col) : TRUE]
    ELSE NaN

\* what SQLite stores and carregar_tabela reads back
DataGravada(c) == IF c.k = "iso" THEN c.n ELSE NaT
TextoGravado(c) == IF c.k = "txt" THEN c.s ELSE Nulo
\* a NULL count is skipped by every sum, as a 0 is
InteiroGravado(c) == IF c.k = "num" THEN c.n ELSE 0

RECURSIVE Gravar(_, _, _, _)
Gravar(tabela, df, i, id) ==
    IF i > Len(df.linhas) THEN tabela
    ELSE Gravar(Append(tabela,
                   [id |-> ProximoId(id),
                    data |-> DataGravada(Celula(df, df.linhas[i], "data")),
                    estufa |->
                        TextoGravado(Celula(df, df.linhas[i], "estufa")),
                    cultura |->
                        TextoGravado(Celula(df, df.linhas[i], "cultura")),
                    caixas |->
                        InteiroGravado(Celula(df, df.linhas[i], "caixas")),
                    caixas_segunda |->
                        InteiroGravado(
                            Celula(df, df.linhas[i], "caixas_segunda"))]),
                df, i + 1, id + 1)

\* "Importar Excel": normalizar_colunas, then inserir_tabela; a call that
\* raises ends the run with nothing stored
ImportarExcel ==
    \E planilha \in PlanilhasProducao :
        LET df == normalizar_colunas(planilha)
            ok == ~df.erro /\ to_sql_aceita(df)
        IN /\ tela = Neutra
           /\ Len(producao) + Len(planilha.linhas) <= base + MaxProd
           /\ seq_prod + Len(planilha.linhas) <= base + MaxProd
           /\ producao' = IF ok THEN Gravar(producao, df, 1, seq_prod)
                                ELSE producao
           /\ seq_prod' = IF ok /\ chave_primaria
                        THEN seq_prod + Len(df.linhas) ELSE seq_prod
           /\ tela' = [pagina |-> "Importar Excel", erro |-> ~ok,
                       planilha |-> planilha, df_excel |-> df]
           /\ UNCHANGED <<insumos, seq_ins, base, config, df_excel, df_norm,
                          df_norm2, fase, chave_primaria, backup>>

\* "Salvar Insumo": the total is computed when none was typed
SalvarInsumo ==
    \E e \in EntradasInsumos :
        LET custo_total_i == IF e[6] > 0 /\ e[5] > 0 /\ e[7] = 0
                             THEN e[6] * e[5] ELSE e[7]
        IN /\ tela = Neutra
           /\ Len(insumos) < MaxIns
           /\ insumos' = Append(insumos,
                  [id |-> ProximoId(seq_ins), data |-> e[1], estufa |-> e[2],
                   cultura |-> e[3], tipo |-> e[4], quantidade |-> e[5],
                   custo_unitario |-> e[6],
                   custo_total |-> IF custo_total_i > 0 THEN custo_total_i
                                   ELSE e[6] * e[5]])
           /\ seq_ins' = IF chave_primaria THEN seq_ins + 1 ELSE seq_ins
           /\ tela' = [pagina |-> "Cadastro Insumos", entrada |-> e]
           /\ UNCHANGED <<producao, seq_prod, base, config, df_excel, df_norm,
                          df_norm2, fase, chave_primaria, backup>>

\* df.rename(columns=lambda x: x.lower())
minusculas(df) ==
    [df EXCEPT !.cols = [i \in 1..Len(df.cols) |-> lower(df.cols[i])]]

RECURSIVE GravarInsumos(_, _, _, _)
GravarInsumos(tabela, df, i, id) ==
    IF i > Len(df.linhas) THEN tabela
    ELSE LET l == df.linhas[i]
         IN GravarInsumos(
                Append(tabela,
                   [id |-> ProximoId(id),
                    data |-> DataGravada(Celula(df, l, "data")),
                    estufa |-> TextoGravado(Celula(df, l, "estufa")),
                    cultura |-> TextoGravado(Celula(df, l, "cultura")),
                    tipo |-> TextoGravado(Celula(df, l, "tipo")),
                    quantidade |->
                        InteiroGravado(Celula(df, l, "quantidade")),
                    custo_unitario |->
                        InteiroGravado(Celula(df, l, "custo_unitario")),
                    custo_total |->
                        InteiroGravado(Celula(df, l, "custo_total"))]),
                df, i + 1, id + 1)

\* "Importar Excel (Insumos)": the column names in lower case, then
\* inserir_tabela; nothing is computed
ImportarExcelInsumos ==
    \E planilha \in PlanilhasInsumos :
        LET df == minusculas(planilha)
            ok == /\ \A i \in 1..Len(df.cols) : df.cols[i] \in ColunasInsumos
                  /\ \A i, j \in 1..Len(df.cols) :
                         df.cols[i] = df.cols[j] => i = j
        IN /\ tela = Neutra
           /\ Len(insumos) + Len(planilha.linhas) <= MaxIns
           /\ insumos' = IF ok THEN GravarInsumos(insumos, df, 1, seq_ins)
                               ELSE insumos
           /\ seq_ins' = IF ok /\ chave_primaria
                       THEN seq_ins + Len(df.linhas) ELSE seq_ins
           /\ tela' = [pagina |-> "Importar Excel (Insumos)", erro |-> ~ok,
                       planilha |-> planilha, df_excel |-> df]
           /\ UNCHANGED <<producao, seq_prod, base, config, df_excel, df_norm,
                          df_norm2, fase, chave_primaria, backup>>

\* "Salvar Alertas e Preços"
SalvarAlertasPrecos ==
    \E preco_caixa \in Precos :
        /\ tela = Neutra
        /\ preco_caixa # preco_medio_caixa(config)
        /\ config' = [k \in DOMAIN config \cup {"preco_medio_caixa"} |->
                          IF k = "preco_medio_caixa" THEN preco_caixa
                          ELSE config[k]]
        /\ tela' = Neutra
        /\ UNCHANGED <<producao, insumos, seq_prod, seq_ins, base, df_excel,
                       df_norm, df_norm2, fase, chave_primaria, backup>>

AbrirDashboard ==
    /\ tela = Neutra
    /\ tela' = Dashboard(producao, insumos, config)
    /\ UNCHANGED <<producao, insumos, seq_prod, seq_ins, base, config,
                   df_excel, df_norm, df_norm2, fase, chave_primaria, backup>>

AbrirCadastroProducao ==
    /\ tela = Neutra
    /\ tela' = CadastroProducao(producao)
    /\ UNCHANGED <<producao, insumos, seq_prod, seq_ins, base, config,
                   df_excel, df_norm, df_norm2, fase, chave_primaria, backup>>

\* with no table filled the page stops at a warning; with production rows
\* that all lack a date, min_date is NaT and the date_input raises
RodarAnalise(filtros) ==
    /\ tela = Neutra
    /\ IF producao = <<>> /\ insumos = <<>>
       THEN tela' = [pagina |-> "Análise", erro |-> FALSE, aviso |-> TRUE]
       ELSE IF producao # <<>> /\ Chaves(producao, "data") = {}
       THEN tela' = [pagina |-> "Análise", erro |-> TRUE]
       ELSE \E f \in filtros :
                LET a == Analise(producao, insumos, config, f)
                IN \E ordenado \in sort_values_custo(a.custos_tipo) :
                       tela' = [a EXCEPT !.custos_tipo = ordenado]
    /\ UNCHANGED <<producao, insumos, seq_prod, seq_ins, base, config,
                   df_excel, df_norm, df_norm2, fase, chave_primaria, backup>>

\* the page with the sidebar selections left at their default
AbrirAnalise == RodarAnalise(Filtros(producao, insumos))

\* the page with any sidebar selection
AbrirAnaliseFiltrada == RodarAnalise(FiltrosEscolhidos(producao, insumos))

\* the run is over; the next interaction starts from the sidebar menu
EscolherPagina ==
    /\ tela # Neutra
    /\ tela' = Neutra
    /\ UNCHANGED <<producao, insumos, seq_prod, seq_ins, base, config,
                   df_excel, df_norm, df_norm2, fase, chave_primaria, backup>>

Next ==
    \/ EscolherPagina
    \/ SalvarRegistro
    \/ ImportarExcel
    \/ SalvarInsumo
    \/ SalvarAlertasPrecos
    \/ AbrirDashboard
    \/ AbrirCadastroProducao
    \/ AbrirAnalise

Spec == Init /\ [][Next]_vars

(***************************************************************************)
(* A session that starts on a database already holding production rows,    *)
(* saved through the form in earlier sessions (criar_tabelas keeps an      *)
(* existing table).                                                        *)
(***************************************************************************)
LinhaAntiga(i) == [id |-> i, data |-> 1, estufa |-> "E1", cultura |-> "A",
                   caixas |-> 1, caixas_segunda |-> 0]

InitHistorico ==
    /\ base = HeadLimit - 1
    /\ producao = [i \in 1..base |-> LinhaAntiga(i)]
    /\ seq_prod = base
    /\ insumos = <<>>
    /\ seq_ins = 0
    /\ config = [preco_medio_caixa |-> 30]
    /\ tela = Neutra
    /\ df_excel = FrameVazio
    /\ df_norm = FrameVazio
    /\ df_norm2 = FrameVazio
    /\ fase = "parada"
    /\ chave_primaria = TRUE
    /\ backup = SemBackup

NextHistorico ==
    \/ EscolherPagina
    \/ SalvarRegistro
    \/ ImportarExcel
    \/ AbrirDashboard
    \/ AbrirCadastroProducao
    \/ AbrirAnalise

SpecHistorico == InitHistorico /\ [][NextHistorico]_vars

(***************************************************************************)
(* "Análise" over the tables earlier sessions left in the database, with    *)
(* every choice of the sidebar filters.                                     *)
(***************************************************************************)
\* rows as the form and the upload store them: day 1, day 3, and one
\* uploaded with a date that was no date
LinhasGravadas ==
    {[data |-> 1, estufa |-> "E1", cultura |-> "B", caixas |-> 1,
      caixas_segunda |-> 0],
     [data |-> 3, estufa |-> "E2", cultura |-> "A", caixas |-> 0,
      caixas_segunda |-> 1],
     [data |-> NaT, estufa |-> "E1", cultura |-> "B", caixas |-> 1,
      caixas_segunda |-> 0]}

CustosGravados ==
    {[data |-> 1, estufa |-> "E1", cultura |-> "B", tipo |-> "Semente",
      quantidade |-> 2, custo_unitario |-> 20, custo_total |-> 40],
     [data |-> 3, estufa |-> "E2", cultura |-> "A", tipo |-> "Muda",
      quantidade |-> 1, custo_unitario |-> 40, custo_total |-> 40]}

\* the id of row i is i: AUTOINCREMENT on a table nothing was deleted from
ComId(r, i) == [c \in DOMAIN r \cup {"id"} |-> IF c = "id" THEN i ELSE r[c]]

Tabelas(linhas, n) ==
    UNION {{[i \in 1..k |-> ComId(t[i], i)] : t \in [1..k -> linhas]} :
           k \in 0..n}

InitFiltro ==
    /\ producao \in Tabelas(LinhasGravadas, MaxProd)
    /\ insumos \in Tabelas(CustosGravados, MaxCustos)
    /\ seq_prod = Len(producao)
    /\ seq_ins = Len(insumos)
    /\ base = Len(producao)
    /\ config = [preco_medio_caixa |-> 30]
    /\ tela = Neutra
    /\ df_excel = FrameVazio
    /\ df_norm = FrameVazio
    /\ df_norm2 = FrameVazio
    /\ fase = "parada"
    /\ chave_primaria = TRUE
    /\ backup = SemBackup

\* plot_bar_sum(ax, df, x, ..) over the production table or a part of it
ChamarPlotBarSum ==
    \E x \in {"estufa", "cultura", "data"}, e \in SUBSET {"E1", "E2"} :
        /\ tela = Neutra
        /\ tela' = [pagina |-> "plot_bar_sum", x |-> x,
                    df |-> filtrar_isin(producao, "estufa", e \cup {"E3"}),
                    res |-> plot_bar_sum(
                                filtrar_isin(producao, "estufa", e \cup {"E3"}),
                                x)]
        /\ UNCHANGED <<producao, insumos, seq_prod, seq_ins, base, config,
                       df_excel, df_norm, df_norm2, fase, chave_primaria,
                       backup>>

NextFiltro ==
    \/ EscolherPagina
    \/ AbrirAnaliseFiltrada
    \/ ChamarPlotBarSum

SpecFiltro == InitFiltro /\ [][NextFiltro]_vars

(***************************************************************************)
(* The price of a box: the pages run on one record of a cultura, with the  *)
(* config.json of this version, one whose price was changed, and one       *)
(* written before the price was a setting.                                 *)
(***************************************************************************)
Configs == {[preco_medio_caixa |-> 30], [preco_medio_caixa |-> 45],
            [cidade |-> "Londrina"]}

InitPreco ==
    /\ config \in Configs
    /\ \E cultura \in {"Kale", "", " "}, caixas \in {0, 10},
          caixas_segunda \in {0, 5} :
           producao = <<[id |-> 1, data |-> 1, estufa |-> "E1",
                         cultura |-> cultura, caixas |-> caixas,
                         caixas_segunda |-> caixas_segunda]>>
    /\ insumos \in Tabelas(CustosGravados, 1)
    /\ seq_prod = 1
    /\ seq_ins = Len(insumos)
    /\ base = 1
    /\ tela = Neutra
    /\ df_excel = FrameVazio
    /\ df_norm = FrameVazio
    /\ df_norm2 = FrameVazio
    /\ fase = "parada"
    /\ chave_primaria = TRUE
    /\ backup = SemBackup

NextPreco ==
    \/ EscolherPagina
    \/ AbrirDashboard
    \/ AbrirAnalise

SpecPreco == InitPreco /\ [][NextPreco]_vars

(***************************************************************************)
(* The input costs of a session: the form and the upload of "Cadastro      *)
(* Insumos", next to the production an earlier session left.               *)
(***************************************************************************)
InitInsumos ==
    /\ producao \in Tabelas(LinhasGravadas, 1)
    /\ seq_prod = Len(producao)
    /\ base = Len(producao)
    /\ insumos = <<>>
    /\ seq_ins = 0
    /\ config = [preco_medio_caixa |-> 30]
    /\ tela = Neutra
    /\ df_excel = FrameVazio
    /\ df_norm = FrameVazio
    /\ df_norm2 = FrameVazio
    /\ fase = "parada"
    /\ chave_primaria = TRUE
    /\ backup = SemBackup

NextInsumos ==
    \/ EscolherPagina
    \/ SalvarInsumo
    \/ ImportarExcelInsumos
    \/ AbrirDashboard
    \/ AbrirAnalise

SpecInsumos == InitInsumos /\ [][NextInsumos]_vars

(***************************************************************************)
(* Deleting rows, "Fazer Backup" and "Restaurar Dados".                    *)
(***************************************************************************)
RECURSIVE SemId(_, _)
SemId(tabela, row_id) ==
    IF tabela = <<>> THEN <<>>
    ELSE (IF Head(tabela).id = row_id THEN <<>> ELSE <<Head(tabela)>>)
             \o SemId(Tail(tabela), row_id)

\* DELETE FROM tabela WHERE id = ?: a NULL id (NaN in the loaded frame)
\* equals nothing
excluir_linha(tabela, row_id) ==
    IF row_id = IdNulo THEN tabela ELSE SemId(tabela, row_id)

RECURSIVE ExcluirTodos(_, _)
ExcluirTodos(tabela, ids) ==
    IF ids = {} THEN tabela
    ELSE LET i == CHOOSE x \in ids : TRUE
         IN ExcluirTodos(excluir_linha(tabela, i), ids \ {i})

\* "Excluir selecionados": the ids are picked among df["id"].tolist()
ExcluirSelecionados ==
    /\ tela = Neutra
    /\ producao # <<>>
    /\ \E ids \in SUBSET Unicos(producao, "id") :
         /\ producao' = ExcluirTodos(producao, ids)
         /\ tela' = [pagina |-> "Excluir selecionados", ids |-> ids,
                     antes |-> producao]
    /\ UNCHANGED <<insumos, seq_prod, seq_ins, base, config, df_excel,
                   df_norm, df_norm2, fase, chave_primaria, backup>>

\* "Fazer Backup": every table, as read, goes to backup_dados.json
FazerBackup ==
    /\ tela = Neutra
    /\ backup' = [feito |-> TRUE, producao |-> producao, insumos |-> insumos]
    /\ backup' # backup
    /\ tela' = [pagina |-> "Fazer Backup"]
    /\ UNCHANGED <<producao, insumos, seq_prod, seq_ins, base, config,
                   df_excel, df_norm, df_norm2, fase, chave_primaria>>

\* "Restaurar Dados": DataFrame(data).to_sql(table, if_exists="replace",
\* index=False) drops each table and creates it anew from the frame, id
\* being one more column of it; st.rerun()
RestaurarDados ==
    /\ tela = Neutra
    /\ backup.feito
    /\ producao' = backup.producao
    /\ insumos' = backup.insumos
    /\ chave_primaria' = FALSE
    /\ tela' = [pagina |-> "Restaurar Dados"]
    /\ UNCHANGED <<seq_prod, seq_ins, base, config, df_excel, df_norm,
                   df_norm2, fase, backup>>

NextBackup ==
    \/ EscolherPagina
    \/ SalvarRegistro
    \/ ImportarExcel
    \/ ExcluirSelecionados
    \/ FazerBackup
    \/ RestaurarDados

SpecBackup == Init /\ [][NextBackup]_vars

(***************************************************************************)
(* CorrelationAnalyzer and TrendForecaster (spec.md 4.5, 4.6).  A reading  *)
(* is a production record with its derived total and the climate of its   *)
(* day: [mes, estufa, total, temperatura, umidade, chuva].                 *)
(***************************************************************************)
MaxRegistros == 10  \* readings handed to forecast
MaxLeituras == 3    \* readings handed to correlate

MinSimples == 5     \* floor of the simple strategy
MinRegressao == 10  \* floor of the regression strategy

Covariaveis == {"temperatura", "umidade", "chuva"}

Leitura(mes, estufa, total, temperatura, umidade, chuva) ==
    [mes |-> mes, estufa |-> estufa, total |-> total,
     temperatura |-> temperatura, umidade |-> umidade, chuva |-> chuva]

\* the readings a forecast is built from
LeiturasPrevisao ==
    {Leitura(1, "E1", 10, 20, 60, 0), Leitura(2, "E2", 20, 25, 60, 0)}

\* the readings a correlation is built from
LeiturasClima ==
    LeiturasPrevisao \cup
        {Leitura(3, "E1", 10, 25, 70, 0), Leitura(3, "E2", 30, 20, 70, 5)}

RECURSIVE SomaProdutos(_, _, _)
SomaProdutos(rs, a, b) ==
    IF rs = <<>> THEN 0
    ELSE Head(rs)[a] * Head(rs)[b] + SomaProdutos(Tail(rs), a, b)

\* n^2 times the covariance of columns a and b
Covariancia(rs, a, b) ==
    Len(rs) * SomaProdutos(rs, a, b) - Soma(rs, a) * Soma(rs, b)

Indefinida == [k |-> "undefined", sinal |-> 0, quadrado |-> nan]

Sinal(x) == IF x > 0 THEN 1 ELSE IF x < 0 THEN -1 ELSE 0

\* a Pearson coefficient r, kept as its sign and r^2
Coeficiente(sxy, sxx, syy) ==
    [k |-> "r", sinal |-> Sinal(sxy), quadrado |-> Rac(sxy * sxy, sxx * syy)]

pearson_zero_se_constante(rs, c) ==
    LET sxy == Covariancia(rs, "total", c)
        sxx == Covariancia(rs, "total", "total")
        syy == Covariancia(rs, c, c)
    IN IF Len(rs) < 2 \/ sxx = 0 THEN Indefinida
       ELSE IF syy = 0 THEN [k |-> "r", sinal |-> 0, quadrado |-> Inteiro(0)]
       ELSE Coeficiente(sxy, sxx, syy)

\* Pearson correlation of total with covariate c; undefined when there are
\* fewer than 2 readings or one of the two columns has zero variance
pearson(rs, c) ==
    LET sxy == Covariancia(rs, "total", c)
        sxx == Covariancia(rs, "total", "total")
        syy == Covariancia(rs, c, c)
    IN IF Len(rs) < 2 \/ syy = 0 \/ sxx = 0 THEN Indefinida
       ELSE Coeficiente(sxy, sxx, syy)

correlate(records) == [c \in Covariaveis |-> pearson(records, c)]

RacSoma(a, b) ==
    IF a.k = "num" /\ b.k = "num" THEN Rac(a.n * b.d + b.n * a.d, a.d * b.d)
    ELSE nan

RECURSIVE MesesEmOrdem(_)
MesesEmOrdem(S) ==
    IF S = {} THEN <<>> ELSE <<Menor(S)>> \o MesesEmOrdem(S \ {Menor(S)})

RECURSIVE DoMes(_, _)
DoMes(rs, m) ==
    IF rs = <<>> THEN <<>>
    ELSE (IF Head(rs).mes = m THEN <<Head(rs)>> ELSE <<>>) \o DoMes(Tail(rs), m)

\* total per calendar month, in month order
TotaisMensais(rs) ==
    LET meses == MesesEmOrdem(Unicos(rs, "mes"))
    IN [i \in 1..Len(meses) |-> Soma(DoMes(rs, meses[i]), "total")]

RECURSIVE SomaVariacoes(_, _)
SomaVariacoes(t, i) ==
    IF i < 2 THEN Inteiro(0)
    ELSE RacSoma(SomaVariacoes(t, i - 1), Pct(t[i] - t[i - 1], t[i - 1]))

\* mean percent change between consecutive months; nan with one month
monthly_trend_pct(rs) ==
    LET t == TotaisMensais(rs)
        s == SomaVariacoes(t, Len(t))
    IN IF Len(t) < 2 \/ s.k # "num" THEN nan
       ELSE Rac(s.n, s.d * (Len(t) - 1))

\* trailing 3-record moving average of total (the overall mean below 3
\* records), times 30
monthly_forecast(rs) ==
    LET n == Len(rs)
    IN IF n = 0 THEN nan
       ELSE IF n < 3 THEN Rac(30 * Soma(rs, "total"), n)
       ELSE Rac(30 * Soma(SubSeq(rs, n - 2, n), "total"), 3)

trend_label_simples(tendencia) ==
    IF tendencia.k = "num" /\ tendencia.n > 0 THEN "growth"
    ELSE IF tendencia.k = "num" /\ tendencia.n < 0 THEN "decline"
    ELSE "stable"

\* the simple-statistics outcome
simples(rs) ==
    [tipo |-> "simple",
     monthly_trend_pct |-> monthly_trend_pct(rs),
     climate_correlations |-> correlate(rs),
     monthly_forecast |-> monthly_forecast(rs),
     trend_label |-> trend_label_simples(monthly_trend_pct(rs))]

\* what a fitted ensemble can come out as: its summed per-location
\* prediction, its in-sample R^2 and its normalised feature importance.
\* The fit itself is not reproduced; the prediction is taken at the
\* historical baseline or one box above it.
Ajustes(rs) ==
    {[previsto |-> Soma(rs, "total") + d,
      r2 |-> Inteiro(1),
      importancia |-> [f \in {"mes", "temperatura"} |->
                           IF (f = "mes") = (d = 0)
                           THEN Inteiro(1) ELSE Inteiro(0)]] : d \in {0, 1}}

\* the regression outcome: "growth" when the forecast exceeds the mean
\* per-location total times the number of locations, else "stable"
regressao(rs, ajuste) ==
    [tipo |-> "regression",
     next_period_forecast |-> ajuste.previsto,
     model_fit_score |-> ajuste.r2,
     feature_importance |-> ajuste.importancia,
     trend_label |-> IF ajuste.previsto > Soma(rs, "total")
                     THEN "growth" ELSE "stable"]

InsufficientData == [tipo |-> "insufficient-data"]
AnalysisError(causa) == [tipo |-> "analysis-error", causa |-> causa]

abaixo_do_minimo_estrito(n) == n < MinSimples - 1

\* below the 5-record floor nothing is computed
abaixo_do_minimo(n) == n < MinSimples

\* forecast(records, strategy?): the result and the computations it ran.
\* falha: an internal numeric failure happens during the computation.
forecast(records, estrategia, ajuste, falha) ==
    LET n == Len(records)
        passos == IF estrategia = "regressao" /\ n >= MinRegressao
                  THEN {"regressao"}
                  ELSE {"tendencia", "correlacao", "media_movel"}
    IN IF abaixo_do_minimo(n)
       THEN [resultado |-> InsufficientData, calculos |-> {}]
       ELSE IF falha
       THEN [resultado |-> AnalysisError("falha numerica"), calculos |-> passos]
       ELSE IF estrategia = "regressao" /\ n >= MinRegressao
       THEN [resultado |-> regressao(records, ajuste), calculos |-> passos]
       ELSE [resultado |-> simples(records), calculos |-> passos]

RegistrarLeitura ==
    /\ tela = Neutra
    /\ Len(producao) < MaxRegistros
    /\ \E r \in LeiturasPrevisao : producao' = Append(producao, r)
    /\ UNCHANGED <<insumos, seq_prod, seq_ins, base, config, tela, df_excel,
                   df_norm, df_norm2, fase, chave_primaria, backup>>

Prever ==
    /\ tela = Neutra
    /\ \E estrategia \in {"regressao", "simples"}, falha \in BOOLEAN :
         \E ajuste \in Ajustes(producao) :
           LET f == forecast(producao, estrategia, ajuste, falha)
           IN tela' = [pagina |-> "forecast", estrategia |-> estrategia,
                       resultado |-> f.resultado, calculos |-> f.calculos]
    /\ UNCHANGED <<producao, insumos, seq_prod, seq_ins, base, config,
                   df_excel, df_norm, df_norm2, fase, chave_primaria, backup>>

Correlacionar ==
    /\ tela = Neutra
    /\ tela' = [pagina |-> "correlate", resultado |-> correlate(producao)]
    /\ UNCHANGED <<producao, insumos, seq_prod, seq_ins, base, config,
                   df_excel, df_norm, df_norm2, fase, chave_primaria, backup>>

InitAnalitico ==
    /\ insumos = <<>>
    /\ seq_prod = 0
    /\ seq_ins = 0
    /\ base = 0
    /\ config = [preco_medio_caixa |-> 30]
    /\ tela = Neutra
    /\ df_excel = FrameVazio
    /\ df_norm = FrameVazio
    /\ df_norm2 = FrameVazio
    /\ fase = "parada"
    /\ chave_primaria = TRUE
    /\ backup = SemBackup

InitPrevisao ==
    /\ producao = <<>>
    /\ InitAnalitico

NextPrevisao ==
    \/ EscolherPagina
    \/ RegistrarLeitura
    \/ Prever

SpecPrevisao == InitPrevisao /\ [][NextPrevisao]_vars

InitCorrelacao ==
    /\ producao \in UNION {[1..k -> LeiturasClima] : k \in 0..MaxLeituras}
    /\ InitAnalitico

NextCorrelacao ==
    \/ EscolherPagina
    \/ Correlacionar

SpecCorrelacao == InitCorrelacao /\ [][NextCorrelacao]_vars

(***************************************************************************)
(* calcular_estagio_fenologico.  The stages are config["fenologia"]        *)
(* ["estagios"], each with a name and the text of its day range, which the *)
(* tab "Fenologia" lets the user retype freely.                            *)
(***************************************************************************)
\* the day datetime.now() falls on
Hoje == 200

\* str.split("-")
split_hifen(t) ==
    CASE t = "0-30" -> <<"0", "30">>
      [] t = "31-60" -> <<"31", "60">>
      [] t = "61-90" -> <<"61", "90">>
      [] t = "91-120" -> <<"91", "120">>
      [] t = "40-60" -> <<"40", "60">>
      [] t = "0-60" -> <<"0", "60">>
      [] t = "45" -> <<"45">>
      [] t = "31-x" -> <<"31", "x">>
      [] t = "0-30-60" -> <<"0", "30", "60">>
      [] OTHER -> <<t>>

\* the texts int() accepts, with their value; on any other text it raises
Inteiros ==
    {<<"0", 0>>, <<"30", 30>>, <<"31", 31>>, <<"40", 40>>, <<"45", 45>>,
     <<"60", 60>>, <<"61", 61>>, <<"90", 90>>, <<"91", 91>>, <<"120", 120>>}

int_aceita(t) == \E p \in Inteiros : p[1] = t
int(t) == (CHOOSE p \in Inteiros : p[1] = t)[2]

\* datetime.strptime(data_plantio, "%Y-%m-%d") raises on anything but the
\* text 'YYYY-MM-DD' of a day
strptime_aceita(data_plantio) == data_plantio.k = "iso"

\* (datetime.now() - datetime.strptime(..)).days: whole days, rounded
\* down, so -1 for a planting date of tomorrow
dias_decorridos(data_plantio) == Hoje - data_plantio.n

\* one stage of the loop: "raise" when int() raises, "return" when the
\* range holds dias, "next" otherwise.  `and` stops at the first false
\* operand, so int() sees the second bound only when the first did not
\* already exclude dias.
Estagio(estagio, dias) ==
    LET dias_range == split_hifen(estagio.dias)
    IN IF Len(dias_range) # 2 THEN "next"
       ELSE IF ~int_aceita(dias_range[1]) THEN "raise"
       ELSE IF ~(dias >= int(dias_range[1])) THEN "next"
       ELSE IF ~int_aceita(dias_range[2]) THEN "raise"
       ELSE IF dias <= int(dias_range[2]) THEN "return"
       ELSE "next"

RECURSIVE PercorrerEstagios(_, _, _)
PercorrerEstagios(estagios, i, dias) ==
    IF i > Len(estagios) THEN "Colheita concluída"
    ELSE LET e == Estagio(estagios[i], dias)
         IN IF e = "raise" THEN "Data inválida"
            ELSE IF e = "return" THEN estagios[i].nome
            ELSE PercorrerEstagios(estagios, i + 1, dias)

\* the label, and whether the call raised; the bare "except:" turns every
\* exception of the body (also the KeyError of a config.json without
\* "fenologia") into 'Data inválida'
calcular_estagio_fenologico(data_plantio, cfg) ==
    [erro |-> FALSE,
     rotulo |->
        IF data_plantio = Txt("") THEN "Não especificado"
        ELSE IF ~strptime_aceita(data_plantio) THEN "Data inválida"
        ELSE IF "fenologia" \notin DOMAIN cfg THEN "Data inválida"
        ELSE PercorrerEstagios(cfg.fenologia.estagios, 1,
                               dias_decorridos(data_plantio))]

\* "fenologia" of the config.json that carregar_config writes
EstagiosPadrao ==
    <<[nome |-> "Germinação/Vegetativo", dias |-> "0-30"],
      [nome |-> "Floração", dias |-> "31-60"],
      [nome |-> "Frutificação", dias |-> "61-90"],
      [nome |-> "Maturação", dias |-> "91-120"]>>

\* what is typed into "Duração (dias)"
TextosDias == {"0-30", "31-60", "61-90", "91-120", "40-60", "0-60", "45",
               "31-x", "0-30-60"}

\* the planting dates handed in: none, a day up to tomorrow, a date
\* written another way, and a text that is no date
DatasPlantio ==
    {Txt(""), Lixo, Outro(Hoje - 10)}
    \cup {Iso(Hoje - d) : d \in {-1, 0, 30, 31, 35, 60, 61, 120, 121}}

\* the config.json found at start-up: the one carregar_config writes, or
\* an older one without "fenologia"
ConfigsFenologia ==
    {[preco_medio_caixa |-> 30, fenologia |-> [estagios |-> EstagiosPadrao]],
     [preco_medio_caixa |-> 30]}

InitFenologia ==
    /\ producao = <<>>
    /\ insumos = <<>>
    /\ seq_prod = 0
    /\ seq_ins = 0
    /\ base = 0
    /\ config \in ConfigsFenologia
    /\ tela = Neutra
    /\ df_excel = FrameVazio
    /\ df_norm = FrameVazio
    /\ df_norm2 = FrameVazio
    /\ fase = "parada"
    /\ chave_primaria = TRUE
    /\ backup = SemBackup

\* tab "Fenologia": the text of a stage's range is retyped
EditarEstagio ==
    /\ tela = Neutra
    /\ "fenologia" \in DOMAIN config
    /\ \E i \in 1..2, dias \in TextosDias :
         /\ dias # config.fenologia.estagios[i].dias
         /\ config' = [config EXCEPT !.fenologia.estagios[i].dias = dias]
    /\ tela' = [pagina |-> "Configurações"]
    /\ UNCHANGED <<producao, insumos, seq_prod, seq_ins, base, df_excel,
                   df_norm, df_norm2, fase, chave_primaria, backup>>

CalcularEstagio ==
    /\ tela = Neutra
    /\ \E data_plantio \in DatasPlantio :
         LET r == calcular_estagio_fenologico(data_plantio, config)
         IN tela' = [pagina |-> "estagio", data_plantio |-> data_plantio,
                     erro |-> r.erro, rotulo |-> r.rotulo]
    /\ UNCHANGED <<producao, insumos, seq_prod, seq_ins, base, config,
                   df_excel, df_norm, df_norm2, fase, chave_primaria, backup>>

NextFenologia ==
    \/ EscolherPagina
    \/ EditarEstagio
    \/ CalcularEstagio

SpecFenologia == InitFenologia /\ [][NextFenologia]_vars

(***************************************************************************)
(* Properties.  The sums below are taken over index sets, apart from the   *)
(* operators the pages use.                                                *)
(***************************************************************************)
RECURSIVE SomaSobre(_, _, _)
SomaSobre(df, I, campo) ==
    IF I = {} THEN 0
    ELSE LET i == CHOOSE x \in I : TRUE
         IN df[i][campo] + SomaSobre(df, I \ {i}, campo)

Linhas(df) == 1..Len(df)

\* boxes of both grades in the rows I of df
TotalLinhas(df, I) ==
    SomaSobre(df, I, "caixas") + SomaSobre(df, I, "caixas_segunda")

\* boxes of both grades in a group table
SomaGrupos(g) ==
    SomaSobre(g, Linhas(g), "caixas") + SomaSobre(g, Linhas(g), "caixas_segunda")

NaDashboard == tela.pagina = "Dashboard"
\* the page "Análise" ran to its end
NaAnalise == tela.pagina = "Análise" /\ "filtro" \in DOMAIN tela
NoCadastro == tela.pagina = "Cadastro Produção"
NaImportacao == tela.pagina = "Importar Excel"

PrecoAtual == preco_medio_caixa(config)

\* the rows of df whose cultura is c
DaCultura(df, c) == {i \in Linhas(df) : df[i].cultura = c}

C2_LucroReceitaMenosCusto ==
    /\ (NaDashboard /\ tela.df_ins # <<>>) =>
           tela.lucro_estimado =
               SomaSobre(tela.df_prod, Linhas(tela.df_prod), "caixas")
                   * PrecoAtual
               - SomaSobre(tela.df_ins, Linhas(tela.df_ins), "custo_total")
    /\ (NaAnalise /\ tela.df_ins_filtrado # <<>>) =>
           LET pf == tela.df_prod_filtrado
               cf == tela.df_ins_filtrado
           IN tela.lucro =
                  SomaSobre(pf, Linhas(pf), "caixas") * PrecoAtual
                  - SomaSobre(cf, Linhas(cf), "custo_total")

(***************************************************************************)
(* C3 - no cost records.                                                   *)
(***************************************************************************)
\* C3, as claimed: with no cost record the cost shown is 0 and the profit
\* shown is the whole revenue (the code has no fixed cost)
C3_SemCustos ==
    /\ (NaDashboard /\ tela.df_ins = <<>>) =>
           /\ tela.total_insumos = 0
           /\ tela.lucro_estimado = tela.receita_estimada
    /\ (NaAnalise /\ tela.df_ins_filtrado = <<>>) =>
           LET pf == tela.df_prod_filtrado
           IN /\ tela.custo_total = 0
              /\ tela.lucro =
                     SomaSobre(pf, Linhas(pf), "caixas") * PrecoAtual

(***************************************************************************)
(* C4 - percentage of 2nd grade.                                           *)
(***************************************************************************)
\* x is a number in [0, 100], and 0 when the denominator den is 0
PctValida(x, den) ==
    /\ x.k = "num"
    /\ 0 <= x.n
    /\ x.n <= 100 * x.d
    /\ den = 0 => x.n = 0

\* C4, as claimed: every 2nd-grade percentage - per record, overall, per
\* cultura - is a number in [0, 100], and 0 when 1st + 2nd grade is 0
C4_PctSegundaValida ==
    /\ NaDashboard =>
           \A i \in Linhas(tela.df_prod) :
               PctValida(tela.pct_segunda[i],
                         TotalLinhas(tela.df_prod, {i}))
    /\ NaAnalise =>
           LET pf == tela.df_prod_filtrado
               g == tela.prod_cultura
           IN /\ PctValida(tela.pct_segunda, TotalLinhas(pf, Linhas(pf)))
              /\ PctValida(tela.pct_segunda_geral,
                           TotalLinhas(pf, Linhas(pf)))
              /\ \A i \in Linhas(g) : PctValida(g[i].pct2, g[i].Total)

(***************************************************************************)
(* C5 - margin.                                                            *)
(***************************************************************************)
\* x is lucro / receita * 100 (also when shown to one decimal) for a
\* positive receita, and 0 for a receita of 0
MargemValida(x, lucro, receita) ==
    IF receita > 0
    THEN x \in {Pct(lucro, receita), round1(Pct(lucro, receita))}
    ELSE x = Inteiro(0)

\* C5, as claimed: the overall margin and the margin of every cultura are
\* profit / revenue * 100, and 0 when the revenue is 0
C5_MargemValida ==
    (NaAnalise /\ tela.tem_balanco) =>
        LET r == tela.rentabilidade
        IN /\ MargemValida(tela.margem_total, tela.lucro_total,
                           tela.receita_total)
           /\ \A i \in Linhas(r) :
                  MargemValida(r[i].Margem, r[i].Lucro, r[i].Receita)

(***************************************************************************)
(* C10 - totals.                                                           *)
(***************************************************************************)
ComData_(df) == {i \in Linhas(df) : df[i].data # NaT}
ComEstufa(df) == {i \in Linhas(df) : df[i].estufa # Nulo}
ComCultura(df) == {i \in Linhas(df) : df[i].cultura # Nulo}

\* C10, as the code has it: the total is the sum over all records of 1st +
\* 2nd grade boxes (0 for no record), and the totals of the groups of a
\* grouping add up to the total of the records whose group key is not null;
\* a record with a null key (no date, a blank estufa or cultura cell) is in
\* no group.
C10_TotaisAgregados ==
    /\ NaDashboard =>
           LET df == tela.df_prod
           IN /\ tela.total_caixas + tela.total_segunda
                     = TotalLinhas(df, Linhas(df))
              /\ SomaGrupos(tela.prod_estufa) = TotalLinhas(df, ComEstufa(df))
              /\ SomaGrupos(tela.prod_temporal) = TotalLinhas(df, ComData_(df))
    /\ NaAnalise =>
           LET pf == tela.df_prod_filtrado
               g == tela.prod_cultura
           IN /\ tela.total_caixas + tela.total_segunda
                     = TotalLinhas(pf, Linhas(pf))
              /\ SomaSobre(g, Linhas(g), "Total")
                     = TotalLinhas(pf, ComCultura(pf))
              /\ SomaGrupos(g) = TotalLinhas(pf, ComCultura(pf))
              /\ SomaGrupos(tela.prod_estufa)
                     = TotalLinhas(pf, ComEstufa(pf))
              /\ SomaGrupos(tela.prod_diaria) = TotalLinhas(pf, ComData_(pf))

\* C10, witness: the Dashboard groups records of which one has no date
C10_Testemunha ==
    /\ NaDashboard
    /\ Len(tela.df_prod) >= 2
    /\ Len(tela.prod_temporal) >= 1
    /\ ComData_(tela.df_prod) # Linhas(tela.df_prod)
    /\ tela.total_caixas + tela.total_segunda > 0

\* C10, as claimed: the totals of the groups of any grouping add up to the
\* total over all records
C10_GruposSomamTotal ==
    /\ NaDashboard =>
           /\ SomaGrupos(tela.prod_estufa)
                  = tela.total_caixas + tela.total_segunda
           /\ SomaGrupos(tela.prod_temporal)
                  = tela.total_caixas + tela.total_segunda
    /\ NaAnalise =>
           /\ SomaGrupos(tela.prod_cultura)
                  = tela.total_caixas + tela.total_segunda
           /\ SomaGrupos(tela.prod_estufa)
                  = tela.total_caixas + tela.total_segunda
           /\ SomaGrupos(tela.prod_diaria)
                  = tela.total_caixas + tela.total_segunda

(***************************************************************************)
(* C6, C7, C8 - normalizar_colunas, under SpecNorm.                        *)
(***************************************************************************)
Normalizada == fase \in {"normalizada", "renormalizada"} /\ ~df_norm.erro

\* C6: normalising a normalised frame changes nothing - the same columns
\* in the same order and the same cells - and raises nothing
C6_Idempotente ==
    fase = "renormalizada" => df_norm2 = df_norm

\* C6, witness: the first pass did change the sheet (a renamed column, a
\* date that was re-written or nulled) and the second pass has run
C6_Testemunha ==
    /\ fase = "renormalizada"
    /\ Len(df_excel.linhas) > 0
    /\ \E i \in 1..Len(df_excel.cols) :
           /\ df_excel.cols[i] = "Data"
           /\ \E r \in 1..Len(df_excel.linhas) :
                  df_excel.linhas[r][i].k \in {"outro", "lixo"}

\* the alias table of the code, name by name
Canonico ==
    [c \in {"Estufa", "Área", "Produção", "Primeira", "Segunda", "Qtd",
            "Quantidade", "Data"} |->
        CASE c = "Estufa" -> "estufa"
          [] c = "Área" -> "estufa"
          [] c = "Produção" -> "caixas"
          [] c = "Primeira" -> "caixas"
          [] c = "Qtd" -> "caixas"
          [] c = "Quantidade" -> "caixas"
          [] c = "Segunda" -> "caixas_segunda"
          [] c = "Data" -> "data"]

NumericasCanonicas == {"caixas", "caixas_segunda", "temperatura", "umidade",
                       "chuva"}
TextuaisCanonicas == {"estufa", "cultura"}

\* the columns of the sheet that carry field col, under its own name or
\* under an alias
Traz(col) ==
    {i \in 1..Len(df_excel.cols) :
        \/ df_excel.cols[i] = col
        \/ /\ df_excel.cols[i] \in DOMAIN Canonico
           /\ Canonico[df_excel.cols[i]] = col}

\* the columns of the result named col
Tem(col) == {i \in 1..Len(df_norm.cols) : df_norm.cols[i] = col}

\* C8, as the code has it: after normalisation every canonical numeric and
\* text column is there; one the sheet did not bring is created once, with
\* 0 (numeric) or "" (text) in every row; one the sheet brought is not
\* created again and keeps its cells.  The date column is the exception: it
\* is there only when the sheet brought it, and its cells are re-written as
\* 'YYYY-MM-DD' or left null.
C8_ColunasCriadas ==
    Normalizada =>
        /\ \A col \in NumericasCanonicas \cup TextuaisCanonicas :
               LET valor == IF col \in NumericasCanonicas THEN Num(0)
                            ELSE Txt("")
               IN /\ Tem(col) # {}
                  /\ Traz(col) = {} =>
                         /\ Cardinality(Tem(col)) = 1
                         /\ \A i \in Tem(col) :
                                /\ i > Len(df_excel.cols)
                                /\ \A r \in 1..Len(df_norm.linhas) :
                                       df_norm.linhas[r][i] = valor
                  /\ Traz(col) # {} =>
                         /\ Tem(col) = Traz(col)
                         /\ \A i \in Traz(col) :
                                \A r \in 1..Len(df_excel.linhas) :
                                    df_norm.linhas[r][i]
                                        = df_excel.linhas[r][i]
        /\ Tem("data") = Traz("data")
        /\ \A i \in Traz("data") :
               \A r \in 1..Len(df_excel.linhas) :
                   LET c == df_excel.linhas[r][i]
                   IN df_norm.linhas[r][i] =
                          IF c.k \in {"iso", "outro"} THEN Iso(c.n) ELSE NaN

\* C8, as claimed: every canonical column, the date column among them, is
\* there after normalisation, and every column the sheet brought keeps its
\* cells
C8_TodasCanonicas ==
    Normalizada =>
        \A col \in NumericasCanonicas \cup TextuaisCanonicas \cup {"data"} :
            /\ Tem(col) # {}
            /\ \A i \in Traz(col) :
                   \A r \in 1..Len(df_excel.linhas) :
                       df_norm.linhas[r][i] = df_excel.linhas[r][i]

\* C8, witness: a sheet with rows that brings 1st-grade boxes under an
\* alias but neither 2nd-grade boxes nor cultura was normalised
C8_Testemunha ==
    /\ Normalizada
    /\ Len(df_excel.linhas) > 0
    /\ Traz("caixas") # {}
    /\ Traz("caixas_segunda") = {}
    /\ Traz("cultura") = {}
    /\ \E i \in Traz("caixas") : df_excel.linhas[1][i] = Num(1)

(***************************************************************************)
(* C9 - records without a date, under SpecHistorico.                       *)
(***************************************************************************)
SemData(df) == {i \in Linhas(df) : df[i].data = NaT}

\* the column of the uploaded sheet that holds the date, when it is the
\* only one
ColunaData(planilha) ==
    {i \in 1..Len(planilha.cols) : planilha.cols[i] \in {"Data", "data"}}

Minimo(a, b) == IF a < b THEN a ELSE b

\* C9, as the code has it: (a) an upload whose one date column holds a value
\* that is no date does not fail; the cell comes out null and the row is
\* stored with a null date; (b) no row with a null date is in the
\* date-filtered production set of "Análise", and no daily bucket of
\* "Análise" or of the Dashboard has the null date as key; (c) every such
\* row is in the loaded table and in the list of ids of "Cadastro
\* Produção", and in the listing of recent records as far as the dated
\* rows leave room among its 15 lines: the dated rows come first.
C9_DataNula ==
    /\ (NaImportacao /\ Cardinality(ColunaData(tela.planilha)) = 1) =>
           LET p == tela.planilha
               d == tela.df_excel
               n == Len(p.linhas)
           IN /\ ~d.erro
              /\ Len(d.linhas) = n
              /\ \A i \in ColunaData(p) : \A r \in 1..n :
                     p.linhas[r][i].k \in {"lixo", "nan"} =>
                         /\ d.linhas[r][i] = NaN
                         /\ ~tela.erro =>
                                producao[Len(producao) - n + r].data = NaT
    /\ NaAnalise =>
           /\ SemData(tela.df_prod_filtrado) = {}
           /\ \A i \in Linhas(tela.prod_diaria) :
                  tela.prod_diaria[i].chave # NaT
    /\ NaDashboard =>
           \A i \in Linhas(tela.prod_temporal) :
               tela.prod_temporal[i].chave # NaT
    /\ NoCadastro =>
           LET df == tela.df
               l == tela.df_display
               datadas == Cardinality(Linhas(df) \ SemData(df))
           IN /\ \A i \in SemData(df) : tela.ids[i] = df[i].id
              /\ Cardinality(SemData(l)) =
                     Minimo(Cardinality(SemData(df)),
                            HeadLimit - Minimo(datadas, HeadLimit))
              /\ \A i \in SemData(l) : \E j \in SemData(df) : l[i] = df[j]
              /\ \A i, j \in Linhas(l) :
                     (l[i].data = NaT /\ l[j].data # NaT) => j < i

\* C9, witness: "Análise" filters a table that holds an uploaded row
\* without a date, and rows are left
C9_Testemunha ==
    /\ NaAnalise
    /\ SemData(tela.df_prod) # {}
    /\ tela.df_prod_filtrado # <<>>

\* C9, as claimed: a row with a null date is never in a date-filtered or
\* date-bucketed set and is always in the listing of records
C9_SempreNaListagem ==
    /\ NaAnalise => SemData(tela.df_prod_filtrado) = {}
    /\ NoCadastro =>
           \A i \in SemData(tela.df) :
               \E j \in Linhas(tela.df_display) :
                   tela.df_display[j] = tela.df[i]

(***************************************************************************)
(* C11 - a record set left empty by the filters, under SpecFiltro.         *)
(***************************************************************************)
\* C11: when the filters leave no production record, "Análise" ends without
\* an error, shows 0 boxes, 0% and a profit of 0, and builds no group table
\* and no undefined ratio; when they leave no cost record it shows a cost of
\* 0 and no cost table; plot_bar_sum on an empty set, or on one whose keys
\* are all null, switches the axis off and plots no group
C11_FiltradoVazio ==
    /\ (NaAnalise /\ tela.df_prod_filtrado = <<>>) =>
           /\ ~tela.erro
           /\ tela.total_caixas = 0
           /\ tela.total_segunda = 0
           /\ tela.pct_segunda = Inteiro(0)
           /\ tela.pct_segunda_geral = Inteiro(0)
           /\ tela.lucro = 0
           /\ tela.prod_diaria = <<>>
           /\ tela.prod_cultura = <<>>
           /\ tela.prod_estufa = <<>>
           /\ tela.rentabilidade = <<>>
    /\ (NaAnalise /\ tela.df_ins_filtrado = <<>>) =>
           /\ ~tela.erro
           /\ tela.custo_total = 0
           /\ tela.custos_tipo = <<>>
           /\ tela.rentabilidade = <<>>
    /\ (tela.pagina = "plot_bar_sum"
          /\ \A i \in Linhas(tela.df) : EhNulo(tela.x, tela.df[i][tela.x])) =>
           tela.res = [eixo |-> FALSE, g |-> <<>>]

\* C11, witness: the table holds production and cost records, and the
\* estufas and culturas chosen leave none of either
C11_Testemunha ==
    /\ NaAnalise
    /\ tela.df_prod # <<>>
    /\ tela.df_ins # <<>>
    /\ tela.filtro.estufas # {}
    /\ tela.filtro.culturas # {}
    /\ tela.df_prod_filtrado = <<>>
    /\ tela.df_ins_filtrado = <<>>

(***************************************************************************)
(* C12 - the order of the rows of a grouped table, under SpecFiltro.       *)
(***************************************************************************)
\* text a comes before text b
Antes(a, b) ==
    \/ a = "A" /\ b = "B"
    \/ a = "E1" /\ b = "E2"
    \/ a = "Muda" /\ b = "Semente"

\* the rows of the group table g are in ascending order of key
ChavesCrescentes(g, campo) ==
    \A i, j \in Linhas(g) :
        i < j => IF campo = "data" THEN g[i].chave < g[j].chave
                 ELSE Antes(g[i].chave, g[j].chave)

\* where key k is first seen in df
PrimeiraVez(df, campo, k) ==
    CHOOSE i \in Linhas(df) :
        /\ df[i][campo] = k
        /\ \A j \in Linhas(df) : df[j][campo] = k => i <= j

\* the rows of the group table g are in the order their keys are first
\* seen in df
OrdemPrimeiraVista(g, df, campo) ==
    \A i, j \in Linhas(g) :
        i < j => PrimeiraVez(df, campo, g[i].chave)
                     < PrimeiraVez(df, campo, g[j].chave)

\* C12, as the code has it: the rows of a grouped table come in ascending
\* order of the group key, whatever the order of the records; the table of
\* costs by tipo has one row for every tipo of the filtered costs, with its
\* total, in descending order of cost (nothing is fixed about rows of equal
\* cost).
C12_OrdemDosGrupos ==
    NaAnalise =>
        LET cf == tela.df_ins_filtrado
            t == tela.custos_tipo
        IN /\ ChavesCrescentes(tela.prod_cultura, "cultura")
           /\ ChavesCrescentes(tela.prod_estufa, "estufa")
           /\ ChavesCrescentes(tela.prod_diaria, "data")
           /\ \A i, j \in Linhas(t) :
                  /\ i < j => t[i].custo_total >= t[j].custo_total
                  /\ t[i].chave = t[j].chave => i = j
           /\ {t[i].chave : i \in Linhas(t)} = Unicos(cf, "tipo")
           /\ \A i \in Linhas(t) :
                  t[i].custo_total =
                      SomaSobre(cf, {r \in Linhas(cf) : cf[r].tipo = t[i].chave},
                                "custo_total")

\* C12, witness: the culturas are first seen as B, A, and two tipos have
\* the same cost
C12_Testemunha ==
    /\ NaAnalise
    /\ Len(tela.prod_cultura) = 2
    /\ tela.df_prod_filtrado[1].cultura = "B"
    /\ Len(tela.custos_tipo) = 2
    /\ tela.custos_tipo[1].custo_total = tela.custos_tipo[2].custo_total
    /\ tela.custos_tipo[1].chave = "Semente"

\* C12, as claimed: a grouped table has its rows in the order the keys are
\* first seen in the records, and the sorted table of costs has its rows of
\* equal cost in ascending order of key
C12_OrdemPrimeiraVista ==
    NaAnalise =>
        /\ OrdemPrimeiraVista(tela.prod_cultura, tela.df_prod_filtrado,
                              "cultura")
        /\ OrdemPrimeiraVista(tela.prod_estufa, tela.df_prod_filtrado,
                              "estufa")
        /\ \A i, j \in Linhas(tela.custos_tipo) :
               (i < j /\ tela.custos_tipo[i].custo_total
                            = tela.custos_tipo[j].custo_total) =>
                   Antes(tela.custos_tipo[i].chave, tela.custos_tipo[j].chave)

(***************************************************************************)
(* C13 - the price of a box, under SpecPreco.                              *)
(***************************************************************************)
\* the price the configuration holds, 30 when it holds none
PrecoConfigurado ==
    IF "preco_medio_caixa" \in DOMAIN config THEN config.preco_medio_caixa
    ELSE 30

SemTotal(total, quantidade, custo_unitario) ==
    total = 0 /\ quantidade > 0 /\ custo_unitario > 0

\* C14, as claimed: a cost record entered with a total of 0, or without a
\* total, and with a positive quantity and unit cost is stored with the
\* total quantity x unit cost - saved through the form or uploaded
C14_CustoTotalGravado ==
    /\ tela.pagina = "Cadastro Insumos" =>
           LET e == tela.entrada
               r == insumos[Len(insumos)]
           IN SemTotal(e[7], e[5], e[6]) => r.custo_total = e[5] * e[6]
    /\ (tela.pagina = "Importar Excel (Insumos)" /\ ~tela.erro) =>
           LET df == tela.df_excel
               n == Len(df.linhas)
           IN \A i \in 1..n :
                  LET l == df.linhas[i]
                      r == insumos[Len(insumos) - n + i]
                      q == Celula(df, l, "quantidade")
                      u == Celula(df, l, "custo_unitario")
                      t == Celula(df, l, "custo_total")
                  IN (q.k = "num" /\ u.k = "num"
                       /\ SemTotal(IF t.k = "num" THEN t.n ELSE 0, q.n, u.n))
                         => r.custo_total = q.n * u.n

(***************************************************************************)
(* C15 - the frames handed to the computations.                            *)
(***************************************************************************)
\* C15, as claimed: when a page has run, the production and cost frames it
\* loaded have the columns and the column types carregar_tabela gave
\* them, and the filtered production has the columns of the production
\* frame: no derived column was added, the date column was not retyped
C15_EntradaIntacta ==
    /\ NaDashboard => tela.quadro_prod = Carregado(ColunasProducao)
    /\ NaAnalise =>
           /\ tela.quadro_prod = Carregado(ColunasProducao)
           /\ tela.quadro_ins = Carregado(ColunasInsumos)
           /\ tela.df_prod # <<>> => tela.colunas_filtrado = ColunasProducao

(***************************************************************************)
(* C16.  forecast on fewer than 5 records (4 in particular) returns the    *)
(* insufficient-data signal and runs no trend or regression computation;   *)
(* the result is exactly one of the variants insufficient-data, simple,    *)
(* regression or analysis-error, with the fields of that variant and no    *)
(* others.                                                                 *)
(***************************************************************************)
NaPrevisao == tela.pagina = "forecast"

CamposDaVariante(tipo) ==
    CASE tipo = "insufficient-data" -> {"tipo"}
      [] tipo = "analysis-error" -> {"tipo", "causa"}
      [] tipo = "simple" ->
           {"tipo", "monthly_trend_pct", "climate_correlations",
            "monthly_forecast", "trend_label"}
      [] tipo = "regression" ->
           {"tipo", "next_period_forecast", "model_fit_score",
            "feature_importance", "trend_label"}
      [] OTHER -> {}

C16_PoucosRegistros ==
    NaPrevisao =>
        /\ Len(producao) < 5 =>
               /\ tela.resultado.tipo = "insufficient-data"
               /\ tela.calculos = {}
        /\ tela.resultado.tipo \in
               {"insufficient-data", "simple", "regression", "analysis-error"}
        /\ DOMAIN tela.resultado = CamposDaVariante(tela.resultado.tipo)

C16_Testemunha ==
    /\ NaPrevisao
    /\ Len(producao) = 4
    /\ tela.resultado = InsufficientData
    /\ tela.estrategia = "simples"

(***************************************************************************)
(* C17.  correlate on readings in which a climate covariate has the same   *)
(* value in every reading reports that covariate as the distinct           *)
(* "undefined" result: not the number 0, not a NaN.                        *)
(***************************************************************************)
NaCorrelacao == tela.pagina = "correlate"

Constante(rs, c) == \A i, j \in 1..Len(rs) : rs[i][c] = rs[j][c]

C17_CovariavelConstante ==
    NaCorrelacao =>
        \A c \in Covariaveis :
            Constante(producao, c) =>
                /\ tela.resultado[c].k = "undefined"
                /\ tela.resultado[c].k # "r"
                /\ tela.resultado[c] # nan

C17_Testemunha ==
    /\ NaCorrelacao
    /\ Len(producao) >= 2
    /\ ~Constante(producao, "total")
    /\ Constante(producao, "chuva")
    /\ ~Constante(producao, "temperatura")
    /\ tela.resultado["chuva"] = Indefinida
    /\ tela.resultado["temperatura"].k = "r"

(***************************************************************************)
(* C18.  After any sequence of insertions (form or import), deletions by   *)
(* id, backups and restores, every stored row has a non-null id that is    *)
(* unique within the table, and deleting id i removes exactly the one row  *)
(* with that id and leaves every other row as it was.                      *)
(***************************************************************************)
IdsUnicos(tabela) ==
    /\ \A i \in 1..Len(tabela) : tabela[i].id # IdNulo
    /\ \A i, j \in 1..Len(tabela) : tabela[i].id = tabela[j].id => i = j

RECURSIVE Restantes(_, _)
Restantes(tabela, I) ==
    IF tabela = <<>> THEN <<>>
    ELSE (IF Head(tabela).id \in I THEN <<>> ELSE <<Head(tabela)>>)
             \o Restantes(Tail(tabela), I)

NaExclusao == tela.pagina = "Excluir selecionados"

C18_IdsUnicos ==
    /\ IdsUnicos(producao)
    /\ NaExclusao =>
           /\ producao = Restantes(tela.antes, tela.ids)
           /\ Len(producao) = Len(tela.antes) - Cardinality(tela.ids)

(***************************************************************************)
(* C19.  Whatever the columns of the sheet, normalizar_colunas returns a   *)
(* frame in which each canonical column name occurs at most once, also     *)
(* when the sheet carries two aliases of one field, or an alias next to    *)
(* the canonical name.                                                     *)
(***************************************************************************)
NomesCanonicos == {"data"} \cup NumericasCanonicas \cup TextuaisCanonicas

C19_NomeUmaVez ==
    fase # "lida" =>
        /\ ~df_norm.erro
        /\ \A c \in NomesCanonicos :
               Cardinality(Indices(df_norm.cols, c)) <= 1

(***************************************************************************)
(* C20.  The filtered production of "Análise" is exactly the loaded        *)
(* records r with start_date <= r.data <= end_date (both ends included),   *)
(* r.estufa among the selected estufas and r.cultura among the selected    *)
(* culturas, an empty selection restricting nothing; the records keep      *)
(* their order, and nothing is in the subset that was not loaded.          *)
(***************************************************************************)
Passa(r, f) ==
    /\ r.data # NaT
    /\ f.start_date <= r.data
    /\ r.data <= f.end_date
    /\ (f.estufas = {} \/ r.estufa \in f.estufas)
    /\ (f.culturas = {} \/ r.cultura \in f.culturas)

\* the rows of df whose index is in I, in the order of df
RECURSIVE Escolhidas(_, _, _)
Escolhidas(df, I, i) ==
    IF i > Len(df) THEN <<>>
    ELSE (IF i \in I THEN <<df[i]>> ELSE <<>>) \o Escolhidas(df, I, i + 1)

ComFiltro == NaAnalise /\ "filtro" \in DOMAIN tela

C20_SubconjuntoFiltrado ==
    ComFiltro =>
        LET df == tela.df_prod
            I == {i \in 1..Len(df) : Passa(df[i], tela.filtro)}
        IN /\ tela.df_prod = producao
           /\ tela.df_prod_filtrado = Escolhidas(df, I, 1)
           /\ \A k \in 1..Len(tela.df_prod_filtrado) :
                  \E i \in 1..Len(df) : df[i] = tela.df_prod_filtrado[k]

C20_Testemunha ==
    /\ ComFiltro
    /\ tela.filtro.estufas = {}
    /\ tela.filtro.culturas # {}
    /\ Cardinality(Unicos(tela.df_prod, "estufa")) = 2
    /\ tela.df_prod_filtrado # <<>>
    /\ Len(tela.df_prod_filtrado) < Len(tela.df_prod)
    /\ \E k \in 1..Len(tela.df_prod_filtrado) :
           tela.df_prod_filtrado[k].data = tela.filtro.start_date

(***************************************************************************)
(* C21.  calcular_estagio_fenologico never raises and returns one label:   *)
(* 'Não especificado' for an empty planting date; 'Data inválida' when the *)
(* date or a configured day range cannot be parsed; otherwise the name of  *)
(* the first stage, in list order, whose range lo-hi (both ends included)  *)
(* holds the days elapsed since planting; and 'Colheita concluída' only    *)
(* when the elapsed days exceed every configured range, so not for a       *)
(* planting date in the future or in a gap between the ranges.             *)
(***************************************************************************)
NoEstagio == tela.pagina = "estagio"

\* the text is "lo-hi" with two whole numbers
FaixaValida(t) ==
    /\ Len(split_hifen(t)) = 2
    /\ int_aceita(split_hifen(t)[1])
    /\ int_aceita(split_hifen(t)[2])

Contem(t, dias) ==
    int(split_hifen(t)[1]) <= dias /\ dias <= int(split_hifen(t)[2])

ComEstagios == "fenologia" \in DOMAIN config

C21_EstagioFenologico ==
    (NoEstagio /\ ComEstagios) =>
        LET es == config.fenologia.estagios
            d == tela.data_plantio
            dias == dias_decorridos(d)
            validas == \A i \in 1..Len(es) : FaixaValida(es[i].dias)
            com == {i \in 1..Len(es) : Contem(es[i].dias, dias)}
        IN /\ ~tela.erro
           /\ IF d = Txt("") THEN tela.rotulo = "Não especificado"
              ELSE IF ~strptime_aceita(d) \/ ~validas
              THEN tela.rotulo = "Data inválida"
              ELSE IF com # {}
              THEN tela.rotulo = es[Min(com)].nome
              ELSE tela.rotulo = "Colheita concluída" <=>
                       \A i \in 1..Len(es) :
                           dias > int(split_hifen(es[i].dias)[2])

====
